---- MODULE Spec2Model ----
(***************************************************************************)
(* Model of PortfolioManager (src/data/datamanagement.py) together with    *)
(* the provider wrapper HistoricalData (src/data/binance_connector.py).    *)
(*                                                                         *)
(* The portfolio is one shared object.  Synchronous methods are atomic     *)
(* steps.  Coroutines run on an asyncio event loop: a coroutine runs       *)
(* without interruption up to its next await, so each action below is the  *)
(* code between two awaits.  The only await that suspends is the provider  *)
(* call of get_kline_async (run_in_executor) and the gather of             *)
(* update_all_symbols_async.                                               *)
(*                                                                         *)
(* Floats are modelled by integers and weights by reduced fractions        *)
(* <<numerator, denominator>>, so arithmetic is exact.  A DataFrame of     *)
(* klines is the sequence of its bars; of a bar only the join keys         *)
(* (opentime, closetime) and the close are kept, the columns valuation and *)
(* the combined table depend on.                                           *)
(***************************************************************************)
EXTENDS Integers, Sequences, FiniteSets, TLC

VARIABLES symbols, last_loaded, portfolio_value, combined_data,
          portfolio_performance, now, tasks, batch, call, lastOp, ncalls,
          _instance, _initialized, _lock, creators, counts

vars == <<symbols, last_loaded, portfolio_value, combined_data,
          portfolio_performance, now, tasks, batch, call, lastOp, ncalls,
          _instance, _initialized, _lock, creators, counts>>

\* the class: PortfolioManager._instance (None, or the serial number of the
\* object it holds), whether that object has the attribute _initialized,
\* PortfolioManager._lock (None, or the create_async coroutine that holds
\* it), the create_async coroutines in flight, and counters of the objects
\* made by __new__, of the runs of the body of __init__, of the batch
\* refreshes started by create_async and of the constructions asked for
cls == <<_instance, _initialized, _lock, creators, counts>>

portfolio == <<symbols, last_loaded, portfolio_value, combined_data,
               portfolio_performance>>

(***************************************************************************)
(* Bounds of the model.                                                    *)
(***************************************************************************)
\* number of public calls made on the portfolio in one behaviour
MaxCalls == 2
\* the clock reads 0..MaxTime
MaxTime == 1
\* number of PortfolioManager(...) and create_async calls in one behaviour
MaxConstructions == 3

(***************************************************************************)
(* Symbol names: strings as sequences of characters, so that str.upper()   *)
(* is computed character by character.                                     *)
(***************************************************************************)
LowerAlpha == <<"a", "b", "c", "d", "e", "h", "l", "o", "s", "t", "u">>
UpperAlpha == <<"A", "B", "C", "D", "E", "H", "L", "O", "S", "T", "U">>

UpperChar(c) ==
    IF \E i \in DOMAIN LowerAlpha : LowerAlpha[i] = c
    THEN UpperAlpha[CHOOSE i \in DOMAIN LowerAlpha : LowerAlpha[i] = c]
    ELSE c

Upper(s) == [i \in DOMAIN s |-> UpperChar(s[i])]

BTCUSDT == <<"B", "T", "C", "U", "S", "D", "T">>
ETHUSDT == <<"E", "T", "H", "U", "S", "D", "T">>
SOLUSDC == <<"S", "O", "L", "U", "S", "D", "C">>
ADAUSDT == <<"A", "D", "A", "U", "S", "D", "T">>
adausdt == <<"a", "d", "a", "u", "s", "d", "t">>

\* the names callers pass in
Names == {BTCUSDT, ETHUSDT, SOLUSDC, ADAUSDT, adausdt}

(***************************************************************************)
(* Optional values (None / a value) and the inputs of the calls.           *)
(***************************************************************************)
None == <<>>
Some(x) == <<x>>

UnitsIn == {2}
OptUnitsIn == {None} \cup {Some(u) : u \in UnitsIn}
ElemValues == {-1, 2}
RandomColours == {"#rnd"}
NoColour == "none"

(***************************************************************************)
(* Klines.                                                                 *)
(***************************************************************************)
EmptyDF == <<>>
KlinesA == << [opentime |-> 1, closetime |-> 2, close |-> 1] >>
KlinesB == << [opentime |-> 2, closetime |-> 3, close |-> 1],
              [opentime |-> 3, closetime |-> 4, close |-> 2] >>

\* what the provider call can do: raise, or return a list of klines
ProviderOutcomes ==
    {[ok |-> FALSE, klines |-> <<>>]} \cup
    {[ok |-> TRUE, klines |-> r] : r \in {KlinesA, KlinesB}}

_process_kline_data(data) == IF data = <<>> THEN EmptyDF ELSE data

\* get_kline / get_kline_async: any exception becomes an empty DataFrame
get_kline(outcome) ==
    IF outcome.ok THEN _process_kline_data(outcome.klines) ELSE EmptyDF

\* data["close"].iloc[-1] if not data.empty else 0.0
LastClose(data) == IF data = EmptyDF THEN 0 ELSE data[Len(data)].close

(***************************************************************************)
(* Exact fractions for the weights.                                        *)
(***************************************************************************)
Abs(x) == IF x < 0 THEN -x ELSE x

RECURSIVE Gcd(_, _)
Gcd(a, b) == IF b = 0 THEN a ELSE Gcd(b, a % b)

\* n / d for d > 0, in lowest terms
Frac(n, d) ==
    LET g == Gcd(Abs(n), d)
    IN  <<n \div g, d \div g>>

ZeroWeight == <<0, 1>>

(***************************************************************************)
(* _calculate_weighting                                                    *)
(***************************************************************************)
RECURSIVE SumValues(_, _)
SumValues(syms, S) ==
    IF S = {} THEN 0
    ELSE LET k == CHOOSE x \in S : TRUE
         IN  syms[k].value + SumValues(syms, S \ {k})

\* sum(self.symbols[symbol]["value"] for symbol in self.symbols.keys())
TotalValue(syms) == SumValues(syms, DOMAIN syms)

\* the symbol records after _calculate_weighting
_calculate_weighting(syms) ==
    LET total == TotalValue(syms)
    IN  [k \in DOMAIN syms |->
            [syms[k] EXCEPT !.weight =
                IF total > 0 THEN Frac(syms[k].value, total) ELSE ZeroWeight]]

(***************************************************************************)
(* Initial state: PortfolioManager.__init__                                *)
(***************************************************************************)
DefaultSymbol(colour) ==
    [units |-> 1, data |-> EmptyDF, close |-> 0, value |-> 0,
     weight |-> ZeroWeight, colour |-> colour]

NoCall == [op |-> "none", arg |-> <<>>, units |-> <<>>, update_data |-> FALSE,
           element |-> "none"]
NoOp == [op |-> "none", arg |-> <<>>, raised |-> "none", fetched |-> FALSE]

IdleBatch == [pc |-> "idle", members |-> {}, pre |-> <<>>, callsAt |-> 0]

\* the coroutines alive, by task id
NoTasks == [t \in {} |-> {}]
NewTid == CHOOSE t \in 1..(Cardinality(DOMAIN tasks) + 1) : t \notin DOMAIN tasks

\* the default symbols of __init__
DefaultSymbols ==
    [k \in {BTCUSDT, ETHUSDT, SOLUSDC} |->
        DefaultSymbol(CASE k = BTCUSDT -> "#FF6B6B"
                        [] k = ETHUSDT -> "#4ECDC4"
                        [] OTHER -> "#45B7D1")]

\* the class once the one instance has been constructed
Constructed ==
    /\ _instance = Some(1)
    /\ _initialized = TRUE
    /\ _lock = None
    /\ creators = NoTasks
    /\ counts = [objects |-> 1, inits |-> 1, refreshes |-> 0,
                 constructions |-> 1]

Init ==
    /\ Constructed
    /\ symbols = DefaultSymbols
    /\ last_loaded = [k \in {BTCUSDT, ETHUSDT, SOLUSDC} |-> 0]
    /\ portfolio_value = 0
    /\ combined_data = None
    /\ portfolio_performance = None
    /\ now = 0
    /\ tasks = NoTasks
    /\ batch = IdleBatch
    /\ call = NoCall
    /\ lastOp = NoOp
    /\ ncalls = 0

(***************************************************************************)
(* Dictionary helpers.                                                     *)
(***************************************************************************)
Put(f, k, v) == [x \in DOMAIN f \cup {k} |-> IF x = k THEN v ELSE f[x]]
Del(f, k) == [x \in DOMAIN f \ {k} |-> f[x]]

\* `call` is the public call made last, with its arguments.  The clock
\* (dt.datetime.now()) may have moved on by a tick since the call before.
CallingWith(op, arg, units, update_data, element) ==
    /\ ncalls < MaxCalls
    /\ ncalls' = ncalls + 1
    /\ call' = [op |-> op, arg |-> arg, units |-> units,
                update_data |-> update_data, element |-> element]
    /\ \E d \in 0..1 : now + d <= MaxTime /\ now' = now + d
    /\ UNCHANGED cls

Calling(op, arg, units, update_data) ==
    CallingWith(op, arg, units, update_data, "none")

\* a call that suspends at an await has not returned yet
Suspended == UNCHANGED lastOp

\* `lastOp` is the call that returned or raised last
Called(op, arg, raised, fetched) ==
    lastOp' = [op |-> op, arg |-> arg, raised |-> raised, fetched |-> fetched]

(***************************************************************************)
(* add_symbol                                                              *)
(***************************************************************************)
\* add_symbol without the test `symbol not in self.symbols`
add_symbol_overwrite(name, units, outcome, colour) ==
    LET symbol == Upper(name)
        data   == get_kline(outcome)
        close  == LastClose(data)
        rec    == [units |-> units, data |-> data, close |-> close,
                   value |-> close * units, weight |-> ZeroWeight,
                   colour |-> colour]
        syms   == _calculate_weighting(Put(symbols, symbol, rec))
    IN  /\ Calling("add_symbol", name, Some(units), FALSE)
        /\ symbols' = syms
        /\ last_loaded' = Put(last_loaded, symbol, now')
        /\ portfolio_value' = TotalValue(syms)
        /\ Called("add_symbol", name, "none", TRUE)
        /\ UNCHANGED <<combined_data, portfolio_performance, tasks, batch>>

\* add_symbol without symbol.upper(): the key is the name as given
add_symbol_keeps_case(name, units, outcome, colour) ==
    LET symbol == name
        data   == get_kline(outcome)
        close  == LastClose(data)
        rec    == [units |-> units, data |-> data, close |-> close,
                   value |-> close * units, weight |-> ZeroWeight,
                   colour |-> colour]
        syms   == _calculate_weighting(Put(symbols, symbol, rec))
    IN  /\ Calling("add_symbol", name, Some(units), FALSE)
        /\ IF symbol \notin DOMAIN symbols
           THEN /\ symbols' = syms
                /\ last_loaded' = Put(last_loaded, symbol, now')
                /\ portfolio_value' = TotalValue(syms)
                /\ Called("add_symbol", name, "none", TRUE)
           ELSE /\ UNCHANGED <<symbols, last_loaded, portfolio_value>>
                /\ Called("add_symbol", name, "none", FALSE)
        /\ UNCHANGED <<combined_data, portfolio_performance, tasks, batch>>

add_symbol(name, units, outcome, colour) ==
    LET symbol == Upper(name)
        data   == get_kline(outcome)
        close  == LastClose(data)
        rec    == [units |-> units, data |-> data, close |-> close,
                   value |-> close * units, weight |-> ZeroWeight,
                   colour |-> colour]
        syms   == _calculate_weighting(Put(symbols, symbol, rec))
    IN  /\ Calling("add_symbol", name, Some(units), FALSE)
        /\ IF symbol \notin DOMAIN symbols
           THEN /\ symbols' = syms
                /\ last_loaded' = Put(last_loaded, symbol, now')
                /\ portfolio_value' = TotalValue(syms)
                /\ Called("add_symbol", name, "none", TRUE)
           ELSE /\ UNCHANGED <<symbols, last_loaded, portfolio_value>>
                /\ Called("add_symbol", name, "none", FALSE)
        /\ UNCHANGED <<combined_data, portfolio_performance, tasks, batch>>

(***************************************************************************)
(* _invalidate_computed_data is the pair of assignments                    *)
(*   combined_data' = None /\ portfolio_performance' = None                *)
(***************************************************************************)
_invalidate_computed_data ==
    /\ combined_data' = None
    /\ portfolio_performance' = None

(***************************************************************************)
(* remove_symbol                                                           *)
(***************************************************************************)
\* remove_symbol that resets the caches whether or not the key is present
remove_symbol_always_invalidates(symbol) ==
    LET syms == _calculate_weighting(Del(symbols, symbol))
    IN  /\ Calling("remove_symbol", symbol, None, FALSE)
        /\ symbols' = syms
        /\ last_loaded' = Del(last_loaded, symbol)
        /\ portfolio_value' = TotalValue(syms)
        /\ _invalidate_computed_data
        /\ Called("remove_symbol", symbol, "none", FALSE)
        /\ UNCHANGED <<tasks, batch>>

\* remove_symbol that forgets the refresh time but keeps the record
remove_symbol_keeps_record(symbol) ==
    /\ Calling("remove_symbol", symbol, None, FALSE)
    /\ IF symbol \in DOMAIN symbols
       THEN /\ last_loaded' = Del(last_loaded, symbol)
            /\ _invalidate_computed_data
            /\ UNCHANGED <<symbols, portfolio_value>>
       ELSE UNCHANGED portfolio
    /\ Called("remove_symbol", symbol, "none", FALSE)
    /\ UNCHANGED <<tasks, batch>>

\* remove_symbol without the call of _calculate_weighting: the total and
\* the weights stay as they were
remove_symbol_stale_weights(symbol) ==
    /\ Calling("remove_symbol", symbol, None, FALSE)
    /\ IF symbol \in DOMAIN symbols
       THEN /\ symbols' = Del(symbols, symbol)
            /\ last_loaded' = Del(last_loaded, symbol)
            /\ UNCHANGED portfolio_value
            /\ _invalidate_computed_data
       ELSE UNCHANGED portfolio
    /\ Called("remove_symbol", symbol, "none", FALSE)
    /\ UNCHANGED <<tasks, batch>>

remove_symbol(symbol) ==
    LET syms == _calculate_weighting(Del(symbols, symbol))
    IN  /\ Calling("remove_symbol", symbol, None, FALSE)
        /\ IF symbol \in DOMAIN symbols
           THEN /\ symbols' = syms
                /\ last_loaded' = Del(last_loaded, symbol)
                /\ portfolio_value' = TotalValue(syms)
                /\ _invalidate_computed_data
           ELSE UNCHANGED portfolio
        /\ Called("remove_symbol", symbol, "none", FALSE)
        /\ UNCHANGED <<tasks, batch>>

(***************************************************************************)
(* update_symbol                                                           *)
(***************************************************************************)
\* the record of `symbol` after a refresh with `data` and optional units
Refreshed(rec, units, data) ==
    LET u == IF units = None THEN rec.units ELSE units[1]
    IN  [rec EXCEPT !.units = u, !.data = data, !.close = LastClose(data),
                    !.value = LastClose(data) * u]

\* update_symbol that resets the caches before it tests for the key
update_symbol_invalidates_first(symbol, units, outcome) ==
    LET rec  == Refreshed(symbols[symbol], units, get_kline(outcome))
        syms == _calculate_weighting([symbols EXCEPT ![symbol] = rec])
    IN  /\ Calling("update_symbol", symbol, units, FALSE)
        /\ _invalidate_computed_data
        /\ IF symbol \notin DOMAIN symbols
           THEN /\ UNCHANGED <<symbols, last_loaded, portfolio_value>>
                /\ Called("update_symbol", symbol, "ValueError", FALSE)
           ELSE /\ symbols' = syms
                /\ last_loaded' = Put(last_loaded, symbol, now')
                /\ portfolio_value' = TotalValue(syms)
                /\ Called("update_symbol", symbol, "none", TRUE)
        /\ UNCHANGED <<tasks, batch>>

update_symbol(symbol, units, outcome) ==
    LET rec  == Refreshed(symbols[symbol], units, get_kline(outcome))
        syms == _calculate_weighting([symbols EXCEPT ![symbol] = rec])
    IN  /\ Calling("update_symbol", symbol, units, FALSE)
        /\ IF symbol \notin DOMAIN symbols
           THEN /\ UNCHANGED portfolio
                /\ Called("update_symbol", symbol, "ValueError", FALSE)
           ELSE /\ symbols' = syms
                /\ last_loaded' = Put(last_loaded, symbol, now')
                /\ portfolio_value' = TotalValue(syms)
                /\ _invalidate_computed_data
                /\ Called("update_symbol", symbol, "none", TRUE)
        /\ UNCHANGED <<tasks, batch>>

(***************************************************************************)
(* update_all_symbols: update_symbol on every key, each with its own       *)
(* provider call.                                                          *)
(***************************************************************************)
RECURSIVE RefreshAll(_, _, _, _)
RefreshAll(syms, S, units, outcomes) ==
    IF S = {} THEN syms
    ELSE LET k   == CHOOSE x \in S : TRUE
             rec == Refreshed(syms[k], units, get_kline(outcomes[k]))
         IN  RefreshAll(_calculate_weighting([syms EXCEPT ![k] = rec]),
                        S \ {k}, units, outcomes)

update_all_symbols(units, outcomes) ==
    LET syms == RefreshAll(symbols, DOMAIN symbols, units, outcomes)
    IN  /\ Calling("update_all_symbols", <<>>, units, FALSE)
        /\ symbols' = syms
        /\ last_loaded' = [k \in DOMAIN last_loaded \cup DOMAIN symbols |->
                             IF k \in DOMAIN symbols THEN now' ELSE last_loaded[k]]
        /\ portfolio_value' = TotalValue(syms)
        /\ IF DOMAIN symbols = {}
           THEN UNCHANGED <<combined_data, portfolio_performance>>
           ELSE _invalidate_computed_data
        /\ Called("update_all_symbols", <<>>, "none", DOMAIN symbols # {})
        /\ UNCHANGED <<tasks, batch>>

(***************************************************************************)
(* update_symbol_element                                                   *)
(***************************************************************************)
_symbol_attributes == {"units", "data", "close", "value", "weight"}

\* the element names callers pass in
Elements == _symbol_attributes \cup {"colour", "price"}

\* the values callers pass for an element
ValuesFor(element) ==
    CASE element = "data"   -> {KlinesA}
      [] element = "weight" -> {<<v, 1>> : v \in ElemValues}
      [] OTHER              -> ElemValues

SetElement(rec, element, value) ==
    CASE element = "units"  -> [rec EXCEPT !.units = value]
      [] element = "data"   -> [rec EXCEPT !.data = value]
      [] element = "close"  -> [rec EXCEPT !.close = value]
      [] element = "value"  -> [rec EXCEPT !.value = value]
      [] element = "weight" -> [rec EXCEPT !.weight = value]

update_symbol_element(symbol, element, value) ==
    LET rec   == SetElement(symbols[symbol], element, value)
        rec2  == [rec EXCEPT !.value = rec.close * rec.units]
        syms  == _calculate_weighting([symbols EXCEPT ![symbol] = rec2])
    IN  /\ CallingWith("update_symbol_element", symbol, None, FALSE, element)
        /\ IF symbol \notin DOMAIN symbols \/ element \notin _symbol_attributes
           THEN /\ UNCHANGED <<symbols, portfolio_value>>
                /\ Called("update_symbol_element", symbol, "ValueError", FALSE)
           ELSE /\ IF element \in {"units", "close"}
                   THEN /\ symbols' = syms
                        /\ portfolio_value' = TotalValue(syms)
                   ELSE /\ symbols' = [symbols EXCEPT ![symbol] = rec]
                        /\ UNCHANGED portfolio_value
                /\ Called("update_symbol_element", symbol, "none", FALSE)
        /\ UNCHANGED <<last_loaded, combined_data, portfolio_performance,
                       tasks, batch>>

(***************************************************************************)
(* get_symbol_element: the element is looked up in the record itself.      *)
(***************************************************************************)
get_symbol_element(symbol, element) ==
    /\ CallingWith("get_symbol_element", symbol, None, FALSE, element)
    /\ IF symbol \notin DOMAIN symbols
       THEN Called("get_symbol_element", symbol, "ValueError", FALSE)
       ELSE IF element \notin DOMAIN symbols[symbol]
       THEN Called("get_symbol_element", symbol, "ValueError", FALSE)
       ELSE Called("get_symbol_element", symbol, "none", FALSE)
    /\ UNCHANGED <<portfolio, tasks, batch>>

(***************************************************************************)
(* The combined table: gen_combine_ohlc / get_combined_ohlc.  A table is   *)
(* its set of close_<symbol> columns and its rows in order; a cell is None *)
(* (missing) or Some(close).                                               *)
(***************************************************************************)
EmptyTable == [cols |-> {}, rows |-> <<>>, quote_volume |-> <<>>,
               duplicates |-> FALSE]

\* data.copy() with close renamed to close_<symbol>.  col_lst does not name
\* quote_volume: that column keeps its label in every frame.  A label of it
\* is the sequence of the suffixes merge has stuck to it (<<>> is
\* "quote_volume", <<"x">> is "quote_volume_x").
Renamed(symbol, data) ==
    [cols |-> {symbol},
     rows |-> [i \in DOMAIN data |->
                 [closetime |-> data[i].closetime, opentime |-> data[i].opentime,
                  close |-> (symbol :> Some(data[i].close))]],
     quote_volume |-> << <<>> >>,
     duplicates |-> FALSE]

\* merge's suffixes=("_x", "_y"): a label both sides carry gets the suffix
Suffixed(labels, other, suffix) ==
    [i \in DOMAIN labels |->
        IF \E j \in DOMAIN other : other[j] = labels[i]
        THEN Append(labels[i], suffix) ELSE labels[i]]

HasDuplicates(labels) ==
    \E i, j \in DOMAIN labels : i # j /\ labels[i] = labels[j]

RowKey(row) == <<row.closetime, row.opentime>>
KeysOf(table) == {RowKey(table.rows[i]) : i \in DOMAIN table.rows}

KeyLess(a, b) == a[1] < b[1] \/ (a[1] = b[1] /\ a[2] < b[2])

RECURSIVE SortKeys(_)
SortKeys(S) ==
    IF S = {} THEN <<>>
    ELSE LET m == CHOOSE x \in S : \A y \in S \ {x} : KeyLess(x, y)
         IN  <<m>> \o SortKeys(S \ {m})

\* the cell of column c in the row of `table` with key `key`, None if no such row
Cell(table, key, c) ==
    IF \E i \in DOMAIN table.rows : RowKey(table.rows[i]) = key
    THEN table.rows[CHOOSE i \in DOMAIN table.rows :
                        RowKey(table.rows[i]) = key].close[c]
    ELSE None

\* pd.merge(left, right, on=["closetime", "opentime"], how="outer")
Merge(left, right) ==
    LET keys == SortKeys(KeysOf(left) \cup KeysOf(right))
        cols == left.cols \cup right.cols
        lq   == Suffixed(left.quote_volume, right.quote_volume, "x")
        rq   == Suffixed(right.quote_volume, left.quote_volume, "y")
    IN  [cols |-> cols,
         rows |-> [i \in DOMAIN keys |->
                     [closetime |-> keys[i][1], opentime |-> keys[i][2],
                      close |-> [c \in cols |->
                                   IF c \in left.cols
                                   THEN Cell(left, keys[i], c)
                                   ELSE Cell(right, keys[i], c)]]],
         quote_volume |-> lq \o rq,
         duplicates |-> left.duplicates \/ HasDuplicates(lq) \/ HasDuplicates(rq)]

RECURSIVE Reduce(_, _, _)
Reduce(acc, syms, S) ==
    IF S = {} THEN acc
    ELSE LET k == CHOOSE x \in S : TRUE
         IN  Reduce(Merge(acc, Renamed(k, syms[k].data)), syms, S \ {k})

\* the outer join of the frames of the symbols that have data
CombineOhlc(syms) ==
    LET nonempty == {k \in DOMAIN syms : syms[k].data # EmptyDF}
    IN  IF nonempty = {} THEN EmptyTable
        ELSE LET k == CHOOSE x \in nonempty : TRUE
             IN  Reduce(Renamed(k, syms[k].data), syms, nonempty \ {k})

\* A merge whose suffixes make two columns of one side carry the same label
\* (the fourth frame: quote_volume becomes a second quote_volume_x) raises
\* MergeError in pandas 2 and later and warns only in pandas 1; no version is
\* pinned.  gen_combine_ohlc catches the exception and stores an empty table.
PandasRaises == BOOLEAN

CombinedTable(syms, raises) ==
    IF raises /\ CombineOhlc(syms).duplicates THEN EmptyTable
    ELSE CombineOhlc(syms)

gen_combine_ohlc(raises) ==
    /\ Calling("gen_combine_ohlc", <<>>, None, FALSE)
    /\ combined_data' = Some(CombinedTable(symbols, raises))
    /\ Called("gen_combine_ohlc", <<>>, "none", FALSE)
    /\ UNCHANGED <<symbols, last_loaded, portfolio_value, portfolio_performance,
                   tasks, batch>>

get_combined_ohlc(raises) ==
    /\ Calling("get_combined_ohlc", <<>>, None, FALSE)
    /\ combined_data' = IF combined_data = None
                        THEN Some(CombinedTable(symbols, raises))
                        ELSE combined_data
    /\ Called("get_combined_ohlc", <<>>, "none", FALSE)
    /\ UNCHANGED <<symbols, last_loaded, portfolio_value, portfolio_performance,
                   tasks, batch>>

(***************************************************************************)
(* The performance table: gen_portfolio_performance /                      *)
(* get_portfolio_performance.  Its rows are <<opentime, portfolio_value>>. *)
(***************************************************************************)
EmptyPerf == <<>>

FillNa0(cell) == IF cell = None THEN 0 ELSE cell[1]

RECURSIVE Dot(_, _, _)
Dot(row, syms, S) ==
    IF S = {} THEN 0
    ELSE LET k == CHOOSE x \in S : TRUE
         IN  FillNa0(row.close[k]) * syms[k].units + Dot(row, syms, S \ {k})

\* the aggregation with dropna() in place of fillna(0): a row with a
\* missing close is left out
Performance_dropna(table, syms) ==
    LET existing == {k \in DOMAIN syms : k \in table.cols}
        full     == SelectSeq(table.rows,
                              LAMBDA row : \A k \in existing : row.close[k] # None)
    IN  IF existing = {} THEN EmptyPerf
        ELSE [i \in DOMAIN full |->
                [opentime |-> full[i].opentime,
                 portfolio_value |-> Dot(full[i], syms, existing)]]

\* the table built from a computed combined table
Performance(table, syms) ==
    LET existing == {k \in DOMAIN syms : k \in table.cols}
    IN  IF existing = {} THEN EmptyPerf
        ELSE [i \in DOMAIN table.rows |->
                [opentime |-> table.rows[i].opentime,
                 portfolio_value |-> Dot(table.rows[i], syms, existing)]]

\* with combined_data None the first branch stores an empty table and does
\* not return: the filter `col in self.combined_data.columns` that follows
\* raises AttributeError on the first symbol (with no symbol it is never
\* evaluated and the empty table stays)
gen_portfolio_performance_body(op) ==
    IF combined_data = None
    THEN /\ portfolio_performance' = Some(EmptyPerf)
         /\ Called(op, <<>>, IF DOMAIN symbols = {} THEN "none"
                                                   ELSE "AttributeError", FALSE)
    ELSE /\ portfolio_performance' = Some(Performance(combined_data[1], symbols))
         /\ Called(op, <<>>, "none", FALSE)

gen_portfolio_performance ==
    /\ Calling("gen_portfolio_performance", <<>>, None, FALSE)
    /\ gen_portfolio_performance_body("gen_portfolio_performance")
    /\ UNCHANGED <<symbols, last_loaded, portfolio_value, combined_data,
                   tasks, batch>>

get_portfolio_performance ==
    /\ Calling("get_portfolio_performance", <<>>, None, FALSE)
    /\ IF portfolio_performance = None
       THEN gen_portfolio_performance_body("get_portfolio_performance")
       ELSE /\ UNCHANGED portfolio_performance
            /\ Called("get_portfolio_performance", <<>>, "none", FALSE)
    /\ UNCHANGED <<symbols, last_loaded, portfolio_value, combined_data,
                   tasks, batch>>

(***************************************************************************)
(* Coroutines.  A task record is one running coroutine of                  *)
(* update_symbol_async or add_symbol_async:                                *)
(*   pc     "ready"    created by update_all_symbols_async, not yet run    *)
(*          "awaiting" suspended in get_kline_async                        *)
(*          "done"     returned                                            *)
(*          "raised"   ended by the exception `raised`                     *)
(*   fetch  "none", "ok" or "failed": what its provider call did           *)
(***************************************************************************)
Task(kind, symbol, units, update_data, pc, inBatch) ==
    [kind |-> kind, symbol |-> symbol, units |-> units,
     update_data |-> update_data, pc |-> pc, fetch |-> "none",
     raised |-> "none", inBatch |-> inBatch]

\* update_symbol_async, lines 219-220: the units are written before the fetch
WithUnits(syms, symbol, units) ==
    IF units = None THEN syms
    ELSE [syms EXCEPT ![symbol].units = units[1]]

\* update_symbol_async, lines 227-236, on the record of `symbol`
Revalued(syms, symbol) ==
    LET rec == syms[symbol]
        c   == LastClose(rec.data)
    IN  _calculate_weighting(
            [syms EXCEPT ![symbol] = [rec EXCEPT !.close = c,
                                                 !.value = c * rec.units]])

(***************************************************************************)
(* update_symbol_async, called and awaited by a coroutine of its own: the  *)
(* code up to the await of the fetch runs in the caller's step.            *)
(***************************************************************************)
\* update_symbol_async that also fetches when the stored series is empty
update_symbol_async_when_empty(symbol, units, update_data) ==
    LET syms1 == WithUnits(symbols, symbol, units)
        syms2 == Revalued(syms1, symbol)
    IN  /\ Calling("update_symbol_async", symbol, units, update_data)
        /\ IF symbol \notin DOMAIN symbols
           THEN /\ UNCHANGED <<portfolio, tasks>>
                /\ Called("update_symbol_async", symbol, "ValueError", FALSE)
           ELSE IF update_data \/ symbols[symbol].data = EmptyDF
           THEN /\ symbols' = syms1
                /\ tasks' = Put(tasks, NewTid, Task("update", symbol, units, TRUE,
                                                    "awaiting", FALSE))
                /\ UNCHANGED <<last_loaded, portfolio_value, combined_data,
                               portfolio_performance>>
                /\ Suspended
           ELSE /\ symbols' = syms2
                /\ last_loaded' = Put(last_loaded, symbol, now')
                /\ portfolio_value' = TotalValue(syms2)
                /\ _invalidate_computed_data
                /\ UNCHANGED tasks
                /\ Called("update_symbol_async", symbol, "none", FALSE)
        /\ UNCHANGED batch

\* update_symbol_async that returns once the units are written when no
\* fetch is asked for
update_symbol_async_units_only(symbol, units, update_data) ==
    LET syms1 == WithUnits(symbols, symbol, units)
    IN  /\ Calling("update_symbol_async", symbol, units, update_data)
        /\ IF symbol \notin DOMAIN symbols
           THEN /\ UNCHANGED <<portfolio, tasks>>
                /\ Called("update_symbol_async", symbol, "ValueError", FALSE)
           ELSE IF update_data
           THEN /\ symbols' = syms1
                /\ tasks' = Put(tasks, NewTid, Task("update", symbol, units, TRUE,
                                                    "awaiting", FALSE))
                /\ UNCHANGED <<last_loaded, portfolio_value, combined_data,
                               portfolio_performance>>
                /\ Suspended
           ELSE /\ symbols' = syms1
                /\ UNCHANGED <<last_loaded, portfolio_value, combined_data,
                               portfolio_performance, tasks>>
                /\ Called("update_symbol_async", symbol, "none", FALSE)
        /\ UNCHANGED batch

update_symbol_async(symbol, units, update_data) ==
    LET syms1 == WithUnits(symbols, symbol, units)
        syms2 == Revalued(syms1, symbol)
    IN  /\ Calling("update_symbol_async", symbol, units, update_data)
        /\ IF symbol \notin DOMAIN symbols
           THEN /\ UNCHANGED <<portfolio, tasks>>
                /\ Called("update_symbol_async", symbol, "ValueError", FALSE)
           ELSE IF update_data
           THEN /\ symbols' = syms1
                /\ tasks' = Put(tasks, NewTid, Task("update", symbol, units, TRUE,
                                                    "awaiting", FALSE))
                /\ UNCHANGED <<last_loaded, portfolio_value, combined_data,
                               portfolio_performance>>
                /\ Suspended
           ELSE /\ symbols' = syms2
                /\ last_loaded' = Put(last_loaded, symbol, now')
                /\ portfolio_value' = TotalValue(syms2)
                /\ _invalidate_computed_data
                /\ UNCHANGED tasks
                /\ Called("update_symbol_async", symbol, "none", FALSE)
        /\ UNCHANGED batch

(***************************************************************************)
(* add_symbol_async, called and awaited by a coroutine of its own.         *)
(***************************************************************************)
add_symbol_async(name, units) ==
    LET symbol == Upper(name)
        rec    == [units |-> units, data |-> EmptyDF, close |-> 0, value |-> 0,
                   weight |-> ZeroWeight, colour |-> NoColour]
    IN  /\ Calling("add_symbol_async", name, Some(units), FALSE)
        /\ IF symbol \notin DOMAIN symbols
           THEN /\ symbols' = Put(symbols, symbol, rec)
                /\ tasks' = Put(tasks, NewTid, Task("add", name, Some(units), TRUE,
                                                    "awaiting", FALSE))
                /\ Suspended
           ELSE /\ UNCHANGED <<symbols, tasks>>
                /\ Called("add_symbol_async", name, "none", FALSE)
        /\ UNCHANGED <<last_loaded, portfolio_value, combined_data,
                       portfolio_performance, batch>>

(***************************************************************************)
(* The fetch of a suspended task returns and the coroutine runs to its     *)
(* end.  The subscript self.symbols[symbol] of the assignment is evaluated *)
(* after the await: it raises KeyError when the symbol is gone.            *)
(***************************************************************************)
\* a task of the batch stays, with its outcome, until gather collects it; a
\* coroutine awaited by its caller returns or raises to that caller
Finished(t, outcome, raised) ==
    IF tasks[t].inBatch
    THEN /\ tasks' = [tasks EXCEPT
                        ![t].pc = IF raised = "none" THEN "done" ELSE "raised",
                        ![t].raised = raised,
                        ![t].fetch = IF outcome.ok THEN "ok" ELSE "failed"]
         /\ UNCHANGED lastOp
    ELSE /\ tasks' = Del(tasks, t)
         /\ lastOp' = [op |-> IF tasks[t].kind = "add" THEN "add_symbol_async"
                                                      ELSE "update_symbol_async",
                       arg |-> tasks[t].symbol, raised |-> raised,
                       fetched |-> TRUE]

fetch_return(t, outcome, colour) ==
    /\ t \in DOMAIN tasks
    /\ tasks[t].pc = "awaiting"
    /\ \E symbol \in {IF tasks[t].kind = "add" THEN Upper(tasks[t].symbol)
                                                ELSE tasks[t].symbol} :
       \E data \in {get_kline(outcome)} :
          IF symbol \notin DOMAIN symbols
          THEN /\ Finished(t, outcome, "KeyError")
               /\ UNCHANGED portfolio
          ELSE /\ Finished(t, outcome, "none")
               /\ last_loaded' = Put(last_loaded, symbol, now)
               /\ IF tasks[t].kind = "update"
                  THEN /\ \E fetched \in {[symbols EXCEPT ![symbol].data = data]} :
                             \E valued \in {[fetched EXCEPT
                                   ![symbol].close = LastClose(data),
                                   ![symbol].value = LastClose(data) * fetched[symbol].units]} :
                                symbols' = _calculate_weighting(valued)
                       /\ portfolio_value' = TotalValue(symbols')
                       /\ _invalidate_computed_data
                  ELSE /\ \E valued \in {[symbols EXCEPT
                                   ![symbol].data = data,
                                   ![symbol].close = LastClose(data),
                                   ![symbol].value = LastClose(data) * tasks[t].units[1],
                                   ![symbol].colour = colour]} :
                             symbols' = _calculate_weighting(valued)
                       /\ portfolio_value' = TotalValue(symbols')
                       /\ UNCHANGED <<combined_data, portfolio_performance>>
    /\ UNCHANGED <<now, batch, call, ncalls, cls>>

(***************************************************************************)
(* update_all_symbols_async: one coroutine per key, then gather.           *)
(***************************************************************************)
RECURSIVE SeqOfSet(_)
SeqOfSet(S) ==
    IF S = {} THEN <<>>
    ELSE LET k == CHOOSE x \in S : TRUE IN <<k>> \o SeqOfSet(S \ {k})

\* lines 250-255 on the symbol map syms: a coroutine per key, handed to gather
SpawnTasks(syms, units, update_data, callsAt) ==
    LET keys == SeqOfSet(DOMAIN syms)
        free == SeqOfSet({t \in 1..(Cardinality(DOMAIN tasks) + Len(keys)) :
                            t \notin DOMAIN tasks})
        tids == {free[i] : i \in DOMAIN keys}
    IN  /\ batch.pc # "gathering"
        /\ tasks' = [t \in DOMAIN tasks \cup tids |->
                        IF t \in DOMAIN tasks THEN tasks[t]
                        ELSE Task("update",
                                  keys[CHOOSE i \in DOMAIN keys : free[i] = t],
                                  units, update_data, "ready", TRUE)]
        /\ batch' = [pc |-> "gathering", members |-> tids, pre |-> syms,
                     callsAt |-> callsAt]

update_all_symbols_async(units, update_data) ==
    /\ Calling("update_all_symbols_async", <<>>, units, update_data)
    /\ SpawnTasks(symbols, units, update_data, ncalls + 1)
    /\ Suspended
    /\ UNCHANGED portfolio

\* The tasks gather scheduled take their first step one after the other,
\* with nothing else running in between.  Each is update_symbol_async up to
\* its await: ValueError for a key that is gone, else the units are written
\* and, with update_data, the task suspends at its fetch; without, it runs to
\* its end.  The tasks write to different keys and all carry the units and
\* update_data of the call, so the steps are taken together here (any is one
\* of the tasks, present the tasks whose key is still held, syms1 the records
\* once the units are written).
start_tasks ==
    /\ batch.pc = "gathering"
    /\ batch.members # {}
    /\ \A t \in batch.members : tasks[t].pc = "ready"
    /\ \E any \in {CHOOSE t \in batch.members : TRUE} :
       \E present \in {{t \in batch.members : tasks[t].symbol \in DOMAIN symbols}} :
       \E keys \in {{tasks[t].symbol : t \in present}} :
       \E syms1 \in {[k \in DOMAIN symbols |->
                        IF k \in keys /\ tasks[any].units # None
                        THEN [symbols[k] EXCEPT !.units = tasks[any].units[1]]
                        ELSE symbols[k]]} :
          /\ tasks' = [t \in DOMAIN tasks |->
                       IF t \notin batch.members THEN tasks[t]
                       ELSE IF t \notin present
                       THEN [tasks[t] EXCEPT !.pc = "raised",
                                             !.raised = "ValueError"]
                       ELSE IF tasks[any].update_data
                       THEN [tasks[t] EXCEPT !.pc = "awaiting"]
                       ELSE [tasks[t] EXCEPT !.pc = "done"]]
          /\ IF tasks[any].update_data \/ keys = {}
             THEN /\ symbols' = syms1
                  /\ UNCHANGED <<last_loaded, portfolio_value, combined_data,
                                 portfolio_performance>>
             ELSE /\ symbols' = _calculate_weighting(
                                  [k \in DOMAIN symbols |->
                                     IF k \in keys
                                     THEN [syms1[k] EXCEPT
                                             !.close = LastClose(syms1[k].data),
                                             !.value = LastClose(syms1[k].data) * syms1[k].units]
                                     ELSE syms1[k]])
                  /\ last_loaded' = [k \in DOMAIN last_loaded \cup keys |->
                                       IF k \in keys THEN now ELSE last_loaded[k]]
                  /\ portfolio_value' = TotalValue(symbols')
                  /\ _invalidate_computed_data
    /\ UNCHANGED <<now, batch, call, lastOp, ncalls, cls>>

\* gather without return_exceptions: the first exception of a task is raised
\* to the caller at once, the other tasks still running
gather_fail_fast ==
    /\ batch.pc = "gathering"
    /\ \/ \A t \in batch.members : tasks[t].pc \in {"done", "raised"}
       \/ \E t \in batch.members : tasks[t].pc = "raised"
    /\ batch' = IdleBatch
    /\ tasks' = [t \in DOMAIN tasks \ batch.members |-> tasks[t]]
    /\ lastOp' = [op |-> "update_all_symbols_async", arg |-> <<>>,
                  raised |-> IF \E t \in batch.members : tasks[t].pc = "raised"
                             THEN "Exception" ELSE "none",
                  fetched |-> \E t \in batch.members : tasks[t].fetch # "none"]
    /\ UNCHANGED <<portfolio, now, call, ncalls, cls>>

\* every coroutine handed to gather has ended: gather collects them
GatherDone ==
    /\ batch.pc = "gathering"
    /\ \A t \in batch.members : tasks[t].pc \in {"done", "raised"}
    /\ batch' = IdleBatch
    /\ tasks' = [t \in DOMAIN tasks \ batch.members |-> tasks[t]]

\* await asyncio.gather(*tasks, return_exceptions=True) returns
gather_return ==
    /\ GatherDone
    /\ lastOp' = [op |-> "update_all_symbols_async", arg |-> <<>>,
                  raised |-> "none", fetched |-> \E t \in batch.members : tasks[t].fetch # "none"]
    /\ UNCHANGED <<portfolio, now, call, ncalls, cls>>

Next ==
    \/ \E n \in Names, u \in UnitsIn, o \in ProviderOutcomes, c \in RandomColours :
          add_symbol(n, u, o, c)
    \/ \E n \in Names : remove_symbol(n)
    \/ \E n \in Names, u \in OptUnitsIn, o \in ProviderOutcomes :
          update_symbol(n, u, o)
    \/ \E u \in OptUnitsIn, os \in [DOMAIN symbols -> ProviderOutcomes] :
          update_all_symbols(u, os)
    \/ \E n \in Names, e \in Elements : \E v \in ValuesFor(e) :
          update_symbol_element(n, e, v)
    \/ \E n \in Names, e \in Elements : get_symbol_element(n, e)
    \/ \E r \in PandasRaises : gen_combine_ohlc(r)
    \/ \E r \in PandasRaises : get_combined_ohlc(r)
    \/ gen_portfolio_performance
    \/ get_portfolio_performance
    \/ \E n \in Names, u \in OptUnitsIn, d \in BOOLEAN :
          update_symbol_async(n, u, d)
    \/ \E n \in Names, u \in UnitsIn : add_symbol_async(n, u)
    \/ \E t \in DOMAIN tasks, o \in ProviderOutcomes, c \in RandomColours :
          fetch_return(t, o, c)
    \/ \E u \in OptUnitsIn, d \in BOOLEAN : update_all_symbols_async(u, d)
    \/ start_tasks
    \/ gather_return

Spec == Init /\ [][Next]_vars

(***************************************************************************)
(* The batch refresh and what can run beside it.  The event loop runs      *)
(* every coroutine that can run: a scheduled task takes its first step, a  *)
(* provider call returns (the executor ends it by a result or an           *)
(* exception), and gather resumes its caller.                              *)
(***************************************************************************)
TaskIds == 1..(Cardinality({Upper(n) : n \in Names}) * MaxCalls)

NextBatch ==
    \/ \E u \in OptUnitsIn, d \in BOOLEAN : update_all_symbols_async(u, d)
    \/ start_tasks
    \/ \E t \in DOMAIN tasks, o \in ProviderOutcomes, c \in RandomColours :
          fetch_return(t, o, c)
    \/ gather_return
    \/ \E n \in Names : remove_symbol(n)
    \/ \E n \in Names, u \in OptUnitsIn, d \in BOOLEAN :
          update_symbol_async(n, u, d)

FairSpec ==
    /\ Init
    /\ [][NextBatch]_vars
    /\ WF_vars(start_tasks)
    /\ WF_vars(gather_return)
    /\ \A t \in TaskIds :
          WF_vars(\E o \in ProviderOutcomes, c \in RandomColours :
                     fetch_return(t, o, c))

(***************************************************************************)
(* The portfolio as the application starts with it: the module constructs  *)
(* the manager, refreshes every default symbol (each provider call with    *)
(* its own outcome), and builds the combined and the performance table.    *)
(* The pages then call the synchronous operations on it.                   *)
(***************************************************************************)
InitLoaded ==
    \E os \in [DOMAIN DefaultSymbols -> ProviderOutcomes] :
       /\ Constructed
       /\ symbols = RefreshAll(DefaultSymbols, DOMAIN DefaultSymbols, None, os)
       /\ last_loaded = [k \in DOMAIN DefaultSymbols |-> 0]
       /\ portfolio_value = TotalValue(symbols)
       /\ combined_data = Some(CombineOhlc(symbols))
       /\ portfolio_performance = Some(Performance(combined_data[1], symbols))
       /\ now = 0
       /\ tasks = NoTasks
       /\ batch = IdleBatch
       /\ call = NoCall
       /\ lastOp = NoOp
       /\ ncalls = 0

NextSync ==
    \/ \E n \in Names, u \in UnitsIn, o \in ProviderOutcomes, c \in RandomColours :
          add_symbol(n, u, o, c)
    \/ \E n \in Names : remove_symbol(n)
    \/ \E n \in Names, u \in OptUnitsIn, o \in ProviderOutcomes :
          update_symbol(n, u, o)
    \/ \E n \in Names, e \in Elements : \E v \in ValuesFor(e) :
          update_symbol_element(n, e, v)
    \/ \E n \in Names, e \in Elements : get_symbol_element(n, e)
    \/ \E r \in PandasRaises : gen_combine_ohlc(r)
    \/ \E r \in PandasRaises : get_combined_ohlc(r)
    \/ gen_portfolio_performance
    \/ get_portfolio_performance

LoadedSpec == InitLoaded /\ [][NextSync]_vars

(***************************************************************************)
(* A refresh in flight: the portfolio as constructed, on which one call    *)
(* update_symbol_async(k, units, update_data=True) has written its units   *)
(* and is suspended at its fetch (task 1).  ncalls counts the calls made   *)
(* after that one.  The other callers remove, add and refresh symbols      *)
(* while the fetch is out; no second update coroutine is started, so every *)
(* task of kind "update" is that first refresh.                            *)
(***************************************************************************)
InitRefreshing ==
    \E k \in DOMAIN DefaultSymbols, u \in OptUnitsIn :
       /\ Constructed
       /\ symbols = WithUnits(DefaultSymbols, k, u)
       /\ last_loaded = [j \in DOMAIN DefaultSymbols |-> 0]
       /\ portfolio_value = 0
       /\ combined_data = None
       /\ portfolio_performance = None
       /\ now = 0
       /\ tasks = (1 :> Task("update", k, u, TRUE, "awaiting", FALSE))
       /\ batch = IdleBatch
       /\ call = [op |-> "update_symbol_async", arg |-> k, units |-> u,
                  update_data |-> TRUE, element |-> "none"]
       /\ lastOp = NoOp
       /\ ncalls = 0

NextRefreshing ==
    \/ \E n \in Names : remove_symbol(n)
    \/ \E n \in Names, u \in UnitsIn, o \in ProviderOutcomes, c \in RandomColours :
          add_symbol(n, u, o, c)
    \/ \E n \in Names, u \in UnitsIn : add_symbol_async(n, u)
    \/ \E n \in Names, u \in OptUnitsIn, o \in ProviderOutcomes :
          update_symbol(n, u, o)
    \/ \E t \in DOMAIN tasks, o \in ProviderOutcomes, c \in RandomColours :
          fetch_return(t, o, c)

RefreshingSpec == InitRefreshing /\ [][NextRefreshing]_vars

(***************************************************************************)
(* The singleton: PortfolioManager(...) and create_async, from the class   *)
(* as it is defined (no instance yet).  A construction is __new__ followed *)
(* by __init__, in one step of the caller.  __init__ builds HistoricalData,*)
(* whose constructor tests the connection to the provider and raises when  *)
(* the test fails: __init__ then ends at line 63, with _instance already   *)
(* set by __new__ and the instance without symbols and without the         *)
(* attribute _initialized.                                                 *)
(***************************************************************************)
\* HistoricalData(api_key, api_secret): test_connection passes or raises
ConnectionOutcomes == BOOLEAN

\* an instance without attributes: the variables of the portfolio stand for
\* nothing until __init__ has set them
NoAttributes ==
    /\ symbols = NoTasks
    /\ last_loaded = NoTasks
    /\ portfolio_value = 0
    /\ combined_data = None
    /\ portfolio_performance = None

InitClass ==
    /\ NoAttributes
    /\ _instance = None
    /\ _initialized = FALSE
    /\ _lock = None
    /\ creators = NoTasks
    /\ counts = [objects |-> 0, inits |-> 0, refreshes |-> 0, constructions |-> 0]
    /\ now = 0
    /\ tasks = NoTasks
    /\ batch = IdleBatch
    /\ call = NoCall
    /\ lastOp = NoOp
    /\ ncalls = 0

\* a call on the class: a construction or create_async
ClassCalling(op) ==
    /\ counts.constructions < MaxConstructions
    /\ call' = [op |-> op, arg |-> <<>>, units |-> None, update_data |-> FALSE,
                element |-> "none"]
    /\ \E d \in 0..1 : now + d <= MaxTime /\ now' = now + d
    /\ UNCHANGED ncalls

\* __init__ runs its body: the object is new or has no attribute _initialized
RunsInit == _instance = None \/ ~_initialized

\* cls(api_key, api_secret, saved_data): __new__ makes an object only when
\* _instance is None; __init__ sets the state unless _initialized is there
Construction(connects) ==
    /\ _instance' = IF _instance = None THEN Some(counts.objects + 1)
                                        ELSE _instance
    /\ IF RunsInit /\ connects
       THEN /\ symbols' = DefaultSymbols
            /\ last_loaded' = [k \in DOMAIN DefaultSymbols |-> now']
            /\ portfolio_value' = 0
            /\ combined_data' = None
            /\ portfolio_performance' = None
            /\ _initialized' = TRUE
       ELSE IF RunsInit
       THEN /\ UNCHANGED portfolio
            /\ _initialized' = FALSE
       ELSE UNCHANGED <<portfolio, _initialized>>

\* the counters after a construction
Counted(connects, refreshes, constructions) ==
    [objects |-> IF _instance = None THEN counts.objects + 1 ELSE counts.objects,
     inits |-> IF RunsInit /\ connects THEN counts.inits + 1 ELSE counts.inits,
     refreshes |-> refreshes,
     constructions |-> constructions]

\* PortfolioManager(api_key, api_secret, saved_data)
PortfolioManager(connects) ==
    /\ ClassCalling("PortfolioManager")
    /\ Construction(connects)
    /\ counts' = Counted(connects, counts.refreshes, counts.constructions + 1)
    /\ Called("PortfolioManager", <<>>,
              IF RunsInit /\ ~connects THEN "BinanceAPIException" ELSE "none",
              FALSE)
    /\ UNCHANGED <<tasks, batch, _lock, creators>>

\* create_async inside `async with cls._lock`, run by the coroutine c up to
\* its await or its end (lines 113-116): with no instance it constructs one
\* and awaits update_all_symbols_async(interval="1h"), holding the lock;
\* with an instance it returns it.  An exception of the constructor leaves
\* the block, which releases the lock.
Locked(c, connects, constructions) ==
    IF _instance = None
    THEN /\ Construction(connects)
         /\ IF connects
            THEN /\ SpawnTasks(DefaultSymbols, None, FALSE, ncalls)
                 /\ _lock' = Some(c)
                 /\ creators' = Put(creators, c, "refreshing")
                 /\ counts' = Counted(connects, counts.refreshes + 1,
                                      constructions)
                 /\ Suspended
            ELSE /\ _lock' = None
                 /\ creators' = Del(creators, c)
                 /\ counts' = Counted(connects, counts.refreshes, constructions)
                 /\ Called("create_async", <<>>, "BinanceAPIException", FALSE)
                 /\ UNCHANGED <<tasks, batch>>
    ELSE /\ _lock' = None
         /\ creators' = Del(creators, c)
         /\ counts' = [counts EXCEPT !.constructions = constructions]
         /\ Called("create_async", <<>>, "none", FALSE)
         /\ UNCHANGED <<portfolio, _instance, _initialized, tasks, batch>>

\* await PortfolioManager.create_async(...): a free lock is taken at once,
\* a held one makes the coroutine wait
create_async(connects) ==
    /\ ClassCalling("create_async")
    /\ \E c \in {CHOOSE i \in 1..(Cardinality(DOMAIN creators) + 1) :
                    i \notin DOMAIN creators} :
          IF _lock = None
          THEN Locked(c, connects, counts.constructions + 1)
          ELSE /\ creators' = Put(creators, c, "waiting")
               /\ counts' = [counts EXCEPT !.constructions = @ + 1]
               /\ Suspended
               /\ UNCHANGED <<portfolio, _instance, _initialized, _lock,
                              tasks, batch>>

\* the lock is free again and a coroutine waiting for it takes it
lock_acquired(c, connects) ==
    /\ c \in DOMAIN creators
    /\ creators[c] = "waiting"
    /\ _lock = None
    /\ Locked(c, connects, counts.constructions)
    /\ UNCHANGED <<now, call, ncalls>>

\* the batch refresh create_async awaits returns: create_async leaves the
\* block, which releases the lock, and returns the instance
create_async_return(c) ==
    /\ c \in DOMAIN creators
    /\ creators[c] = "refreshing"
    /\ GatherDone
    /\ _lock' = None
    /\ creators' = Del(creators, c)
    /\ Called("create_async", <<>>, "none", FALSE)
    /\ UNCHANGED <<portfolio, now, call, ncalls, _instance, _initialized,
                   counts>>

\* the constructions, and holders of the initialised instance that change
\* and read it meanwhile
NextClass ==
    \/ \E b \in ConnectionOutcomes : PortfolioManager(b)
    \/ \E b \in ConnectionOutcomes : create_async(b)
    \/ \E c \in DOMAIN creators, b \in ConnectionOutcomes : lock_acquired(c, b)
    \/ \E c \in DOMAIN creators : create_async_return(c)
    \/ start_tasks
    \/ /\ _initialized
       /\ \E n \in Names, u \in UnitsIn, o \in ProviderOutcomes, c \in RandomColours :
             add_symbol(n, u, o, c)
    \/ /\ _initialized
       /\ \E n \in Names : remove_symbol(n)
    \/ /\ _initialized
       /\ \E r \in PandasRaises : gen_combine_ohlc(r)

SingletonSpec == InitClass /\ [][NextClass]_vars

(***************************************************************************)
(* Properties.                                                             *)
(***************************************************************************)
\* this step is a public call of one of `ops`
CallOf(ops) == ncalls' = ncalls + 1 /\ call'.op \in ops

\* the call of this step returned or raised in this step
ReturnedNow == lastOp'.op = call'.op /\ lastOp'.arg = call'.arg /\ tasks' = tasks

DuplicateAdd ==
    /\ CallOf({"add_symbol", "add_symbol_async"})
    /\ Upper(call'.arg) \in DOMAIN symbols

AbsentRemove ==
    /\ CallOf({"remove_symbol"})
    /\ call'.arg \notin DOMAIN symbols

AllFinished == \A t \in batch.members : tasks[t].pc \in {"done", "raised"}

\* C1: when update_all_symbols_async (with data refresh) has run all its
\* tasks and nothing else touched the portfolio meanwhile, a symbol whose
\* fetch failed has the series, close, value and weight it had before the
\* batch, and a symbol whose fetch succeeded has the close and value derived
\* from its series.
C1_LastKnownGoodRetained ==
    (/\ batch.pc = "gathering"
     /\ AllFinished
     /\ batch.callsAt = ncalls
     /\ DOMAIN tasks = batch.members)
    => \A t \in batch.members :
          LET s == tasks[t].symbol
          IN  (s \in DOMAIN symbols /\ s \in DOMAIN batch.pre) =>
                /\ tasks[t].fetch = "failed" =>
                      /\ symbols[s].data = batch.pre[s].data
                      /\ symbols[s].close = batch.pre[s].close
                      /\ symbols[s].value = batch.pre[s].value
                      /\ symbols[s].weight = batch.pre[s].weight
                /\ tasks[t].fetch = "ok" =>
                      /\ symbols[s].close = LastClose(symbols[s].data)
                      /\ symbols[s].value = symbols[s].close * symbols[s].units

\* no coroutine is in flight: every public operation made has completed
Quiescent == DOMAIN tasks = {} /\ batch.pc = "idle"

\* weight * total = value, for a total > 0
WeightIs(rec, total) == rec.weight[1] * total = rec.value * rec.weight[2]

\* the sum of the weights of the symbols in S, as <<numerator, denominator>>
RECURSIVE SumWeights(_, _)
SumWeights(syms, S) ==
    IF S = {} THEN <<0, 1>>
    ELSE LET k    == CHOOSE x \in S : TRUE
             rest == SumWeights(syms, S \ {k})
             w    == syms[k].weight
         IN  <<w[1] * rest[2] + rest[1] * w[2], w[2] * rest[2]>>

WeightsSumToOne(syms) ==
    LET sum == SumWeights(syms, DOMAIN syms) IN sum[1] = sum[2]

\* C2: after completed public operations, whenever the portfolio total is
\* > 0 the weights sum to exactly 1 and each weight times the total is the
\* symbol's value.
C2_WeightsSumToOne ==
    (Quiescent /\ portfolio_value > 0) =>
        /\ WeightsSumToOne(symbols)
        /\ \A k \in DOMAIN symbols : WeightIs(symbols[k], portfolio_value)

\* C3: every step that changes a symbol's state (or the symbol set) leaves
\* both derived caches not computed.
C3_ChangeInvalidatesCaches ==
    [][symbols' # symbols =>
          combined_data' = None /\ portfolio_performance' = None]_vars

\* C4: after completed public operations every symbol has value = close x
\* units and close = the last close of its series (0 for an empty series).
C4_ValuationConsistent ==
    Quiescent =>
        \A k \in DOMAIN symbols :
            /\ symbols[k].value = symbols[k].close * symbols[k].units
            /\ symbols[k].close = LastClose(symbols[k].data)

(***************************************************************************)
(* StalenessPolicy, as the specification describes it.                     *)
(***************************************************************************)
MaxAge == 0

isStale(lastRefreshed, t, maxAge) == t - lastRefreshed > maxAge

\* the symbol k is stale at the call of this step
Stale(k) ==
    \/ symbols[k].data = EmptyDF
    \/ k \notin DOMAIN last_loaded
    \/ isStale(last_loaded[k], now', MaxAge)

UpdateCall(k) ==
    /\ CallOf({"update_symbol", "update_symbol_async"})
    /\ call'.arg = k

\* the call of this step issues a provider call
FetchIssued ==
    \/ lastOp'.op = call'.op /\ lastOp'.arg = call'.arg /\ lastOp'.fetched
    \/ DOMAIN tasks' # DOMAIN tasks

AtomicView(syms) ==
    \A k \in DOMAIN syms :
        /\ syms[k].value = syms[k].close * syms[k].units
        /\ syms[k].weight = IF TotalValue(syms) > 0
                            THEN Frac(syms[k].value, TotalValue(syms))
                            ELSE ZeroWeight

\* this step leaves a coroutine suspended at its fetch
Suspends ==
    \E t \in DOMAIN tasks' :
        /\ tasks'[t].pc = "awaiting"
        /\ t \notin DOMAIN tasks \/ tasks[t].pc # "awaiting"

\* C7: a mutator that suspends at its fetch leaves no half-updated state for
\* the tasks that run meanwhile: if values and weights were consistent before
\* the step that suspends, they are consistent after it.
C7_SuspendKeepsAtomicView ==
    [][(Suspends /\ AtomicView(symbols)) => AtomicView(symbols')]_vars

\* the key a task writes to
KeyOf(task) == IF task.kind = "add" THEN Upper(task.symbol) ELSE task.symbol

\* the task t ends in this step, and whether it ends without an exception
Ends(t) == t \notin DOMAIN tasks' \/ tasks'[t].pc \in {"done", "raised"}
EndsQuietly(t) ==
    IF t \in DOMAIN tasks' THEN tasks'[t].raised = "none"
    ELSE lastOp'.raised = "none"

\* C8: when the fetch of a task returns and its symbol has been removed
\* meanwhile, the commit is a no-op: the portfolio is unchanged and the task
\* ends without raising.
C8_CommitAfterRemoveIsNoOp ==
    [][\A t \in DOMAIN tasks :
          (/\ tasks[t].pc = "awaiting"
           /\ KeyOf(tasks[t]) \notin DOMAIN symbols
           /\ Ends(t))
          => (UNCHANGED portfolio /\ EndsQuietly(t))]_vars

\* C9: update_all_symbols_async returns only when every task it spawned has
\* returned or raised, no task is dropped before that, the call itself never
\* raises, and (every fetch returning) the call returns.
C9_WaitForAll ==
    /\ [][(batch.pc = "gathering" /\ batch'.pc # "gathering") =>
             /\ AllFinished
             /\ lastOp'.op = "update_all_symbols_async"
             /\ lastOp'.raised = "none"]_vars
    /\ [][(batch.pc = "gathering" /\ batch'.pc = "gathering") =>
             /\ batch'.members = batch.members
             /\ batch.members \subseteq DOMAIN tasks']_vars
    /\ (batch.pc = "gathering") ~> (batch.pc = "idle")

\* gather is about to return with a task that raised and a sibling that ran
\* to its end
C9_Witness ==
    /\ batch.pc = "gathering"
    /\ AllFinished
    /\ \E t, u \in batch.members :
          /\ tasks[t].pc = "raised"
          /\ tasks[u].pc = "done"
          /\ tasks[u].fetch = "ok"

\* C11: gen_portfolio_performance / get_portfolio_performance never raises,
\* in any state it is called in (with the caches not computed too), and
\* leaves a table in the cache; get_portfolio_performance leaves a computed
\* cache as it is.
C11_PerformanceAlwaysYieldsTable ==
    [][CallOf({"gen_portfolio_performance", "get_portfolio_performance"}) =>
          /\ lastOp'.op = call'.op
          /\ lastOp'.raised = "none"
          /\ portfolio_performance' # None
          /\ (call'.op = "get_portfolio_performance"
                /\ portfolio_performance # None)
             => portfolio_performance' = portfolio_performance]_vars

\* C12: after completed public operations, when the portfolio total is 0
\* every symbol's weight is 0.
C12_ZeroTotalZeroWeights ==
    (Quiescent /\ portfolio_value = 0) =>
        \A k \in DOMAIN symbols : symbols[k].weight = ZeroWeight

\* C13: after completed public operations, the stored total equals the sum
\* of the value fields of the symbols present.
C13_TotalIsSumOfValues ==
    Quiescent => portfolio_value = TotalValue(symbols)

\* C14: add_symbol stores the symbol under the upper-cased form of the name
\* it is given, whatever its casing: every key of the symbol map is upper
\* case, the keys after add_symbol(name) are the keys before and
\* Upper(name), and an add whose upper-cased name is already a key (names
\* that differ from it only in case included) is treated as a duplicate:
\* nothing is fetched and the portfolio is unchanged.
C14_KeysAreUpperCased ==
    [][/\ \A k \in DOMAIN symbols \cup DOMAIN symbols' : Upper(k) = k
       /\ CallOf({"add_symbol"}) =>
             /\ DOMAIN symbols' = DOMAIN symbols \cup {Upper(call'.arg)}
             /\ Upper(call'.arg) \in DOMAIN symbols =>
                   (UNCHANGED portfolio /\ ~lastOp'.fetched)]_vars

\* add_symbol("adausdt") has returned as a duplicate of the key ADAUSDT, and
\* no key "adausdt" exists
C14_Witness ==
    /\ call.op = "add_symbol"
    /\ call.arg = adausdt
    /\ lastOp.op = "add_symbol"
    /\ lastOp.arg = adausdt
    /\ ~lastOp.fetched
    /\ ADAUSDT \in DOMAIN symbols
    /\ adausdt \notin DOMAIN symbols

\* C15: remove_symbol(k) followed by add_symbol(k, u) leaves for k a record
\* with units u whose series was fetched by the add and whose close, value
\* and weight follow from u and that series (the weight, from the values of
\* the symbols then present), whatever the record removed held.
C15_ReaddHasNoLeftover ==
    [][(/\ call.op = "remove_symbol"
        /\ lastOp.op = "remove_symbol"
        /\ Upper(call.arg) = call.arg
        /\ CallOf({"add_symbol"})
        /\ call'.arg = call.arg) =>
          /\ call.arg \in DOMAIN symbols'
          /\ lastOp'.fetched
          /\ symbols'[call.arg].units = call'.units[1]
          /\ symbols'[call.arg].data \in {get_kline(o) : o \in ProviderOutcomes}
          /\ symbols'[call.arg].close = LastClose(symbols'[call.arg].data)
          /\ symbols'[call.arg].value =
                symbols'[call.arg].close * symbols'[call.arg].units
          /\ symbols'[call.arg].weight =
                IF TotalValue(symbols') > 0
                THEN Frac(symbols'[call.arg].value, TotalValue(symbols'))
                ELSE ZeroWeight]_vars

\* SOLUSDC (1 unit at the start) was removed, which reset the caches, and
\* added again with 2 units and a fetch of one bar
C15_Witness ==
    /\ ncalls = 2
    /\ call.op = "add_symbol"
    /\ call.arg = SOLUSDC
    /\ lastOp.fetched
    /\ \A k \in {BTCUSDT, ETHUSDT} :
          k \in DOMAIN symbols /\ symbols[k].data = KlinesB
    /\ SOLUSDC \in DOMAIN symbols
    /\ symbols[SOLUSDC].data = KlinesA
    /\ symbols[SOLUSDC].units = 2
    /\ combined_data = None

\* the timestamps of the bars of a series
Timestamps(data) == {<<data[i].closetime, data[i].opentime>> : i \in DOMAIN data}

\* this step builds the combined table
BuildsCombined ==
    /\ CallOf({"gen_combine_ohlc", "get_combined_ohlc"})
    /\ call'.op = "gen_combine_ohlc" \/ combined_data = None

\* C16: the combined table gen_combine_ohlc builds has exactly one row per
\* timestamp of the union of the timestamps of the series, columns for the
\* symbols with a series that is not empty and for no other, and in each row
\* a missing cell for every symbol that has no bar at the row's timestamp.
C16_CombinerIsFullOuterJoin ==
    [][BuildsCombined =>
          LET t == combined_data'[1]
              U == UNION {Timestamps(symbols[k].data) : k \in DOMAIN symbols}
          IN  /\ KeysOf(t) = U
              /\ Len(t.rows) = Cardinality(U)
              /\ t.cols = {k \in DOMAIN symbols : symbols[k].data # EmptyDF}
              /\ \A i \in DOMAIN t.rows : \A k \in t.cols :
                    t.rows[i].close[k] =
                       IF RowKey(t.rows[i]) \in Timestamps(symbols[k].data)
                       THEN Some((CHOOSE b \in {symbols[k].data[j] :
                                                  j \in DOMAIN symbols[k].data} :
                                     <<b.closetime, b.opentime>> =
                                        RowKey(t.rows[i])).close)
                       ELSE None]_vars

\* C17: update_symbol_async on a present symbol with new units and without
\* a data refresh returns without fetching, leaves the series as it is, sets
\* the units, sets value = close x the new units, and recomputes the total
\* and the weight of every symbol.
C17_RecomputeWithoutFetch ==
    [][(/\ CallOf({"update_symbol_async"})
        /\ call'.arg \in DOMAIN symbols
        /\ call'.units # None
        /\ ~call'.update_data) =>
          /\ ReturnedNow
          /\ lastOp'.raised = "none"
          /\ ~lastOp'.fetched
          /\ DOMAIN symbols' = DOMAIN symbols
          /\ symbols'[call'.arg].data = symbols[call'.arg].data
          /\ symbols'[call'.arg].units = call'.units[1]
          /\ symbols'[call'.arg].value =
                symbols'[call'.arg].close * call'.units[1]
          /\ portfolio_value' = TotalValue(symbols')
          /\ \A k \in DOMAIN symbols' :
                symbols'[k].weight =
                   IF portfolio_value' > 0
                   THEN Frac(symbols'[k].value, portfolio_value')
                   ELSE ZeroWeight]_vars

\* update_symbol_async(k, units = 2) without refresh has returned for a
\* symbol that holds a series: its value is twice its close and is the
\* whole total
C17_Witness ==
    /\ call.op = "update_symbol_async"
    /\ ~call.update_data
    /\ call.units = Some(2)
    /\ lastOp.op = "update_symbol_async"
    /\ lastOp.arg = call.arg
    /\ lastOp.raised = "none"
    /\ call.arg \in DOMAIN symbols
    /\ symbols[call.arg].data # EmptyDF
    /\ symbols[call.arg].units = 2
    /\ symbols[call.arg].value = 2 * LastClose(symbols[call.arg].data)
    /\ symbols[call.arg].value > 0
    /\ portfolio_value = symbols[call.arg].value
    /\ symbols[call.arg].weight = <<1, 1>>

\* the call of this step names a present symbol and a field of its record
ValidElementCall ==
    /\ call'.arg \in DOMAIN symbols
    /\ call'.element \in DOMAIN symbols[call'.arg]

\* C18: get_symbol_element and update_symbol_element raise an error for an
\* absent symbol and for a name that is not a field of the symbol record,
\* leaving the portfolio unchanged, and both accept every field of the
\* record (the same set of names).
C18_ElementAccessErrors ==
    [][CallOf({"get_symbol_element", "update_symbol_element"}) =>
          /\ lastOp'.op = call'.op
          /\ (lastOp'.raised = "none") <=> ValidElementCall
          /\ ~ValidElementCall => UNCHANGED portfolio]_vars

\* C19: in every state the public operations reach, every symbol's weight
\* lies in [0, 1] and every symbol's units are >= 0.
C19_WeightsAndUnitsInRange ==
    \A k \in DOMAIN symbols :
       /\ symbols[k].units >= 0
       /\ 0 <= symbols[k].weight[1]
       /\ symbols[k].weight[1] <= symbols[k].weight[2]

\* the close of symbol k in a row of the combined table, a missing close
\* (no cell, or no column for k) counted as 0
CloseOr0(row, k) ==
    IF k \in DOMAIN row.close /\ row.close[k] # None THEN row.close[k][1] ELSE 0

RECURSIVE SumUnitsClose(_, _, _)
SumUnitsClose(row, syms, S) ==
    IF S = {} THEN 0
    ELSE LET k == CHOOSE x \in S : TRUE
         IN  syms[k].units * CloseOr0(row, k) + SumUnitsClose(row, syms, S \ {k})

\* this step builds the performance table from the combined table
BuildsPerformance ==
    /\ CallOf({"gen_portfolio_performance", "get_portfolio_performance"})
    /\ call'.op = "gen_portfolio_performance" \/ portfolio_performance = None
    /\ lastOp'.raised = "none"
    /\ combined_data # None

\* C20: when the performance table is built it has one row per row of the
\* combined table, in the same order and with the row's opentime, and the
\* portfolio value of a row is the sum over the symbols present of the
\* symbol's units times its close in that row, a missing close counted as 0.
C20_PerformanceAggregates ==
    [][BuildsPerformance =>
          /\ portfolio_performance' # None
          /\ Len(portfolio_performance'[1]) = Len(combined_data[1].rows)
          /\ \A i \in DOMAIN combined_data[1].rows :
                /\ portfolio_performance'[1][i].opentime =
                      combined_data[1].rows[i].opentime
                /\ portfolio_performance'[1][i].portfolio_value =
                      SumUnitsClose(combined_data[1].rows[i], symbols,
                                    DOMAIN symbols)]_vars

\* gen_portfolio_performance has built the table from a combined table of
\* several rows; in one row a symbol's close is missing and another symbol,
\* holding 2 units, has a close: the row's value is twice that close
C20_Witness ==
    /\ call.op = "gen_portfolio_performance"
    /\ lastOp.op = "gen_portfolio_performance"
    /\ lastOp.raised = "none"
    /\ combined_data # None
    /\ portfolio_performance # None
    /\ Len(combined_data[1].rows) > 1
    /\ Len(portfolio_performance[1]) = Len(combined_data[1].rows)
    /\ \E i \in DOMAIN combined_data[1].rows :
       \E j, k \in combined_data[1].cols \cap DOMAIN symbols :
          /\ combined_data[1].rows[i].close[k] = None
          /\ combined_data[1].rows[i].close[j] # None
          /\ symbols[j].units = 2
          /\ portfolio_performance[1][i].portfolio_value =
                2 * combined_data[1].rows[i].close[j][1]
          /\ portfolio_performance[1][i].portfolio_value > 0

\* C21: update_symbol / update_symbol_async called with a key that is not
\* present raises an error to the caller in the step of the call, issues no
\* fetch (no provider call is made and no coroutine is left awaiting one) and
\* leaves the whole portfolio unchanged; a task of update_all_symbols_async
\* that finds its key gone when it starts ends by the same error without a
\* fetch and does not bring the key back.
C21_UpdateOfAbsentRaises ==
    [][/\ (/\ CallOf({"update_symbol", "update_symbol_async"})
           /\ call'.arg \notin DOMAIN symbols) =>
             /\ ReturnedNow
             /\ lastOp'.raised = "ValueError"
             /\ ~lastOp'.fetched
             /\ UNCHANGED portfolio
       /\ \A t \in DOMAIN tasks :
             (/\ tasks[t].pc = "ready"
              /\ tasks'[t].pc # "ready"
              /\ tasks[t].symbol \notin DOMAIN symbols) =>
                /\ tasks'[t].pc = "raised"
                /\ tasks'[t].raised = "ValueError"
                /\ tasks'[t].fetch = "none"
                /\ tasks[t].symbol \notin DOMAIN symbols']_vars

\* update_symbol of a key that is not present has raised, made while the
\* combined table was computed: the table is still there
C21_Witness ==
    /\ call.op = "update_symbol"
    /\ call.arg \notin DOMAIN symbols
    /\ lastOp.op = "update_symbol"
    /\ lastOp.arg = call.arg
    /\ lastOp.raised = "ValueError"
    /\ ~lastOp.fetched
    /\ combined_data # None

\* C22: remove_symbol of a present key k returns normally, deletes exactly k
\* from the symbol map and from the refresh-timestamp map (the other
\* timestamps stay), leaves units, series, close, value and colour of every
\* other symbol as they were, sets the total to the sum of the remaining
\* values and every remaining weight to value / total (0 for a total that is
\* not positive), and leaves both derived caches not computed.
C22_RemoveFrame ==
    [][(/\ CallOf({"remove_symbol"})
        /\ call'.arg \in DOMAIN symbols) =>
          /\ ReturnedNow
          /\ lastOp'.raised = "none"
          /\ DOMAIN symbols' = DOMAIN symbols \ {call'.arg}
          /\ DOMAIN last_loaded' = DOMAIN last_loaded \ {call'.arg}
          /\ \A j \in DOMAIN last_loaded' : last_loaded'[j] = last_loaded[j]
          /\ \A j \in DOMAIN symbols' :
                /\ symbols'[j].units = symbols[j].units
                /\ symbols'[j].data = symbols[j].data
                /\ symbols'[j].close = symbols[j].close
                /\ symbols'[j].value = symbols[j].value
                /\ symbols'[j].colour = symbols[j].colour
                /\ symbols'[j].weight =
                      IF TotalValue(symbols') > 0
                      THEN Frac(symbols'[j].value, TotalValue(symbols'))
                      ELSE ZeroWeight
          /\ portfolio_value' = TotalValue(symbols')
          /\ combined_data' = None
          /\ portfolio_performance' = None]_vars

\* the first call on the started application removed BTCUSDT, which held a
\* series: ETHUSDT (value 2) and SOLUSDC (value 1) keep their series and
\* refresh times and now weigh 2/3 and 1/3 of the total 3
C22_Witness ==
    /\ ncalls = 1
    /\ call.op = "remove_symbol"
    /\ call.arg = BTCUSDT
    /\ lastOp.op = "remove_symbol"
    /\ DOMAIN symbols = {ETHUSDT, SOLUSDC}
    /\ DOMAIN last_loaded = {ETHUSDT, SOLUSDC}
    /\ symbols[ETHUSDT].data = KlinesB
    /\ symbols[SOLUSDC].data = KlinesA
    /\ portfolio_value = 3
    /\ symbols[ETHUSDT].weight = <<2, 3>>
    /\ symbols[SOLUSDC].weight = <<1, 3>>
    /\ combined_data = None
    /\ portfolio_performance = None

\* the record under the default key k is not the one __init__ made: only an
\* add writes a colour, so a colour other than the default one marks a
\* record that an add created after the first one was removed
Reoccupied(k) ==
    /\ k \in DOMAIN symbols
    /\ k \in DOMAIN DefaultSymbols
    /\ symbols[k].colour # DefaultSymbols[k].colour

\* C23: when the fetch of the refresh that was already awaiting returns and
\* its key k has meanwhile been removed and added again, the step writes
\* nothing into the new occupant of k: its series, close, value and refresh
\* timestamp stay as the operations issued after the re-add left them.
C23_NoCrossOccupantCommit ==
    [][\A t \in DOMAIN tasks :
          (/\ tasks[t].kind = "update"
           /\ tasks[t].pc = "awaiting"
           /\ Ends(t)
           /\ Reoccupied(tasks[t].symbol)) =>
             /\ tasks[t].symbol \in DOMAIN symbols'
             /\ symbols'[tasks[t].symbol].data = symbols[tasks[t].symbol].data
             /\ symbols'[tasks[t].symbol].close = symbols[tasks[t].symbol].close
             /\ symbols'[tasks[t].symbol].value = symbols[tasks[t].symbol].value
             /\ tasks[t].symbol \in DOMAIN last_loaded =>
                   /\ tasks[t].symbol \in DOMAIN last_loaded'
                   /\ last_loaded'[tasks[t].symbol] =
                         last_loaded[tasks[t].symbol]]_vars

\* an operation completes in this step: the call of the step returns or
\* raises in it, or a suspended coroutine runs to its end, or gather returns
Completes ==
    \/ ncalls' = ncalls + 1 /\ ReturnedNow
    \/ \E t \in DOMAIN tasks : tasks[t].pc = "awaiting" /\ Ends(t)
    \/ batch.pc = "gathering" /\ batch'.pc = "idle"

\* C24: after every completed operation the keys of the refresh-timestamp
\* map are exactly the keys of the symbol map.
C24_KeySetsAgree ==
    [][Completes => DOMAIN last_loaded' = DOMAIN symbols']_vars

\* this step commits a series for k that a provider call of the step's
\* operation returned (a failed call leaves the empty series): the call is
\* made in the step by a synchronous operation, or was awaited by the
\* coroutine that ends in the step
CommitsFetched(k) ==
    /\ k \in DOMAIN symbols'
    /\ symbols'[k].data # EmptyDF
    /\ \/ /\ CallOf({"update_symbol"})
          /\ call'.arg = k
          /\ lastOp'.fetched
       \/ /\ CallOf({"update_all_symbols"})
          /\ lastOp'.fetched
       \/ \E t \in DOMAIN tasks :
             /\ tasks[t].pc = "awaiting"
             /\ Ends(t)
             /\ KeyOf(tasks[t]) = k

\* C25: the refresh timestamp of a symbol changes only in a step that
\* commits a newly and successfully fetched series for that symbol; an
\* update without a fetch, or one whose fetch failed, leaves it as it was.
C25_TimestampTracksCommit ==
    [][\A k \in DOMAIN last_loaded \cap DOMAIN last_loaded' :
          last_loaded'[k] # last_loaded[k] => CommitsFetched(k)]_vars

\* C26: when add_symbol(s, u) has added a symbol (s named no present
\* symbol) and the next call is remove_symbol(s) with the same string, the
\* symbols present after the remove are those present before the add: the
\* key the add made, Upper(s), is gone, whatever the casing of s.
C26_AddRemoveRoundTrip ==
    [][(/\ call.op = "add_symbol"
        /\ lastOp.op = "add_symbol"
        /\ lastOp.arg = call.arg
        /\ lastOp.fetched
        /\ DOMAIN tasks = {}
        /\ CallOf({"remove_symbol"})
        /\ call'.arg = call.arg) =>
          DOMAIN symbols' = DOMAIN symbols \ {Upper(call.arg)}]_vars

\* this step is a construction, or a step of a create_async coroutine
ConstructionStep ==
    \/ counts'.constructions # counts.constructions
    \/ creators' # creators

\* C27: over every sequence and interleaving of PortfolioManager(...) and
\* create_async calls, __new__ makes at most one object; the body of __init__
\* sets the state at most once, and no construction or create_async step
\* changes the symbol map, the timestamps, the total or the caches of an
\* instance that is initialised; an instance handed out by a construction or
\* by create_async has had its state initialised, exactly once; and
\* create_async starts the initial batch refresh at most once.
C27_SingletonInitialisedOnce ==
    /\ [](counts.objects <= 1 /\ counts.inits <= 1 /\ counts.refreshes <= 1)
    /\ [][(ConstructionStep /\ _instance # None /\ _initialized) =>
             UNCHANGED portfolio]_vars
    /\ []((/\ lastOp.op \in {"PortfolioManager", "create_async"}
           /\ lastOp.raised = "none") =>
             (_instance # None /\ _initialized /\ counts.inits = 1))

====
